---- MODULE Spec2Model ----
(***************************************************************************)
(* Transaction ledger, approval workflow and provider float balances of    *)
(* the MerchantPlusGh backend (transactions/views.py, transactions/        *)
(* models.py, transactions/signals.py), with its expense requests and its  *)
(* login path (accounts/views.py, accounts/views_2fa.py,                   *)
(* middleware/lockout.py, middleware/tenant.py).                           *)
(*                                                                         *)
(* Every request is served by an independent worker.  The views run with   *)
(* the database in autocommit mode (no transaction.atomic, no              *)
(* ATOMIC_REQUESTS, no select_for_update), so every ORM statement is one   *)
(* atomic step and the steps of concurrent requests interleave.            *)
(*                                                                         *)
(* Money is counted in minor units (1 = 0.01 GHS).  Unrounded Decimal      *)
(* results are counted in 1/Scale of a minor unit.                         *)
(***************************************************************************)
EXTENDS Integers, Sequences, FiniteSets, TLC

VARIABLES db_engine, txs, details, balances, pc, local, resp, ret, adj,
          expenses, tokens, auth, attempts, lockouts, now, logins

vars == <<db_engine, txs, details, balances, pc, local, resp, ret, adj,
          expenses, tokens, auth, attempts, lockouts, now, logins>>

\* the state of authentication: the Token table, what login and API
\* requests answered, the stores of the lockout middleware and the clock
accounts_vars == <<tokens, auth, attempts, lockouts, now, logins>>

----------------------------------------------------------------------------
(* Bounds of the model *)

MaxTx == 3
MaxCreated == 1
MaxAdjust == 3
MaxListed == 2
MaxExpenses == 2
MaxLogins == 6
MaxSessions == 3
MaxTime == 900

Workers == {"w1", "w2"}

\* the addresses login requests come from
IPs == {"ip1"}

----------------------------------------------------------------------------
(* Tenants, members and per-company configuration *)

Companies == {"c1", "c2"}

Users == {"owner1", "manager1", "teller1", "agent1", "admin2"}

membership ==
  [u \in Users |->
     CASE u = "owner1"   -> [company |-> "c1", role |-> "owner",   branch |-> "b1"]
       [] u = "manager1" -> [company |-> "c1", role |-> "manager", branch |-> "b1"]
       [] u = "teller1"  -> [company |-> "c1", role |-> "teller",  branch |-> "none"]
       [] u = "agent1"   -> [company |-> "c1", role |-> "agent",   branch |-> "b1"]
       [] u = "admin2"   -> [company |-> "c2", role |-> "admin",   branch |-> "b2"]]

subscription_plan ==
  [c \in Companies |->
     IF c = "c1" THEN [has_mobile_money |-> TRUE,  has_bank_deposits |-> TRUE]
                 ELSE [has_mobile_money |-> FALSE, has_bank_deposits |-> FALSE]]

HasSettings(c) == c = "c1"

\* percentages in hundredths of a percent, money in minor units
settings ==
  [c \in {"c1"} |->
     [require_approval_above     |-> 1000,
      deposit_fee_percentage     |-> 100,
      withdrawal_fee_percentage  |-> 200,
      transfer_fee_flat          |-> 200,
      notify_on_large_transaction |-> TRUE,
      large_transaction_threshold |-> 5000]]

\* a role gate that lets every member through
AnyRole == {"owner", "admin", "manager", "teller", "agent"}

ManagerRoles == {"owner", "admin", "manager"}
AdminRoles == {"owner", "admin"}

----------------------------------------------------------------------------
(* Decimal arithmetic and the two-decimal columns *)

Scale == 10000

Abs(x) == IF x < 0 THEN -x ELSE x

\* rounding of a non-negative value n/Scale to whole minor units
QuantizeAbs(n, engine) ==
  LET q == n \div Scale
      r == n % Scale
  IN  IF 2 * r < Scale THEN q
      ELSE IF 2 * r > Scale THEN q + 1
      ELSE IF engine = "sqlite" /\ q % 2 = 0 THEN q
      ELSE q + 1

\* value stored by a DecimalField(decimal_places=2) column: sqlite gets the
\* value quantized by Django (ROUND_HALF_EVEN), postgresql rounds the
\* numeric itself (ties away from zero)
Quantize(x, engine) ==
  IF x < 0 THEN -QuantizeAbs(-x, engine) ELSE QuantizeAbs(x, engine)

\* a fee policy that charges the deposit percentage on withdrawals too
calculate_fee_one_rate(company, transaction_type, amount) ==
  IF ~HasSettings(company) THEN 0
  ELSE CASE transaction_type \in {"deposit", "withdrawal"} ->
              settings[company].deposit_fee_percentage * amount
         [] transaction_type = "transfer" ->
              settings[company].transfer_fee_flat * Scale
         [] OTHER -> 0

\* _calculate_fee: unrounded fee in 1/Scale minor units
calculate_fee(company, transaction_type, amount) ==
  IF ~HasSettings(company) THEN 0
  ELSE CASE transaction_type = "deposit" ->
              settings[company].deposit_fee_percentage * amount
         [] transaction_type = "withdrawal" ->
              settings[company].withdrawal_fee_percentage * amount
         [] transaction_type = "transfer" ->
              settings[company].transfer_fee_flat * Scale
         [] OTHER -> 0

\* an exclusive threshold
needs_approval_exclusive(company, amount) ==
  IF ~HasSettings(company) THEN FALSE
  ELSE amount > settings[company].require_approval_above

\* _needs_approval
needs_approval(company, amount) ==
  IF ~HasSettings(company) THEN FALSE
  ELSE amount >= settings[company].require_approval_above

----------------------------------------------------------------------------
(* Transaction rows *)

Rands == {100, 999}

\* Transaction._generate_reference
generate_reference(timestamp, rand) == <<"TXN", timestamp, rand>>

\* a reference column without the unique index
ReferenceNeverTaken(reference) == FALSE

\* unique=True on Transaction.reference: the INSERT raises IntegrityError
ReferenceTaken(reference) ==
  \E i \in 1..Len(txs) : txs[i].reference = reference

NoId == 0

EmptyRow ==
  [reference |-> <<"TXN", 0, 0>>, company |-> "none", branch |-> "none",
   customer |-> "none", initiated_by |-> "none", transaction_type |-> "none", channel |-> "none",
   status |-> "none", amount |-> 0, fee |-> 0, net_amount |-> 0,
   requires_approval |-> FALSE, approved_by |-> "none",
   rejection_reason |-> "none", reversed_transaction |-> NoId]

\* an ExpenseRequest instance before its fields are given
EmptyExpense ==
  [company |-> "none", requested_by |-> "none", status |-> "none",
   approved_by |-> "none", approved_at |-> "null", rejection_reason |-> "none"]

\* post_save handler of Transaction, created branch: does it create
\* Notification rows (outside any try/except)?
NotifiesOnCreate(row) ==
  \/ /\ HasSettings(row.company)
     /\ settings[row.company].notify_on_large_transaction
     /\ row.amount >= settings[row.company].large_transaction_threshold
  \/ row.requires_approval /\ row.status = "pending"

NoLocal ==
  [id |-> NoId, tx |-> EmptyRow, actor |-> "none", d_200 |-> 0, reversal |-> NoId,
   bal |-> NoId, amount |-> 0, operation |-> "none", read |-> 0,
   starting |-> 0, new |-> 0, user |-> "none", items |-> <<>>,
   expense |-> EmptyExpense, ip |-> "none", password |-> "none",
   status_code |-> 0, body |-> "none"]

\* nothing returned yet by a read-only operation
NoReturn == [op |-> "none", actor |-> "none", args |-> <<>>, value |-> {}]

Idle(w) == pc[w] = "idle"

\* the response of the request that finished last: view, HTTP status and
\* the kind of error body
Respond(op, code, error) == resp' = [op |-> op, code |-> code, error |-> error]

Finish(w, op, code, error) ==
  /\ pc' = [pc EXCEPT ![w] = "idle"]
  /\ local' = [local EXCEPT ![w] = NoLocal]
  /\ Respond(op, code, error)
  /\ UNCHANGED ret

UnchangedDb == UNCHANGED <<accounts_vars, expenses, db_engine, txs, details, balances, adj>>

----------------------------------------------------------------------------
(* create_bank_deposit / create_momo_transaction / create_cash_transaction *)

Customers == {"none", "cust1"}

\* Customer.company of the customers registered: one by each company
customer_company == [cust1 |-> "c1", cust2 |-> "c2"]

ChannelTypes ==
  { <<"bank", "deposit">>,
    <<"mobile_money", "deposit">>, <<"mobile_money", "withdrawal">>,
    <<"cash", "deposit">>, <<"cash", "withdrawal">> }

\* the row built by the view and stored by Transaction.objects.create
NewTransaction(actor, channel, customer, transaction_type, amount, reference) ==
  LET company == membership[actor].company
      fee == calculate_fee(company, transaction_type, amount)
      requires_approval == needs_approval(company, amount)
  IN  [reference |-> reference,
       company |-> company,
       branch |-> membership[actor].branch,
       customer |-> customer,
       initiated_by |-> actor,
       transaction_type |-> transaction_type,
       channel |-> channel,
       status |-> IF requires_approval THEN "pending" ELSE "completed",
       amount |-> amount,
       fee |-> Quantize(fee, db_engine),
       net_amount |-> Quantize(amount * Scale - fee, db_engine),
       requires_approval |-> requires_approval,
       approved_by |-> "none",
       rejection_reason |-> "none",
       reversed_transaction |-> NoId]

\* create_momo_transaction when mobile money is not available on the plan:
\* 403 before anything is written
CreateMomoRefused(w, actor) ==
  /\ Idle(w)
  /\ ~subscription_plan[membership[actor].company].has_mobile_money
  /\ Finish(w, "create", 403, "plan")
  /\ UnchangedDb

\* first write of a create view: Transaction.objects.create(...)
CreateTransaction(w, actor, channel, customer, tx_type, amount, d_200, timestamp, rand, notify_ok) ==
  LET reference == generate_reference(timestamp, rand)
      row == NewTransaction(actor, channel, customer, tx_type, amount, reference)
  IN  /\ Idle(w)
      /\ Len(txs) < MaxTx
      /\ <<channel, tx_type>> \in ChannelTypes
      /\ channel = "mobile_money" =>
           subscription_plan[membership[actor].company].has_mobile_money
      /\ channel # "cash" => d_200 = 0
      /\ NotifiesOnCreate(row) \/ notify_ok
      /\ IF ReferenceTaken(reference)
         THEN /\ Finish(w, "create", 500, "IntegrityError")
              /\ UNCHANGED txs
         ELSE /\ txs' = Append(txs, row)
              /\ IF notify_ok
                 THEN /\ pc' = [pc EXCEPT ![w] = "create_detail"]
                      /\ local' = [local EXCEPT ![w] =
                            [NoLocal EXCEPT !.id = Len(txs) + 1, !.d_200 = d_200]]
                      /\ UNCHANGED <<resp, ret>>
                 ELSE Finish(w, "create", 500, "notification")
      /\ UNCHANGED <<accounts_vars, expenses, db_engine, details, balances, adj>>

\* second write: BankDeposit / MobileMoneyTransaction / CashTransaction
\* .objects.create(transaction=tx, ...); the PositiveIntegerField columns of
\* CashTransaction refuse a negative count
CreateDetail(w) ==
  /\ pc[w] = "create_detail"
  /\ IF local[w].d_200 < 0
     THEN /\ Finish(w, "create", 500, "IntegrityError")
          /\ UNCHANGED details
     ELSE /\ details' = details \cup
               {[transaction |-> local[w].id, kind |-> txs[local[w].id].channel]}
          /\ Finish(w, "create", 201, "none")
  /\ UNCHANGED <<accounts_vars, expenses, db_engine, txs, balances, adj>>

----------------------------------------------------------------------------
(* approve_transaction *)

\* a lookup by id and company that ignores the status
FoundAnyStatus(id, company, status) ==
  /\ id \in 1..Len(txs)
  /\ txs[id].company = company

\* Transaction.objects.get(id=..., company=..., status=...)
Found(id, company, status) ==
  /\ id \in 1..Len(txs)
  /\ txs[id].company = company
  /\ txs[id].status = status

\* a view without the own-transaction check
NeverOwnTransaction(tx, actor) == FALSE

\* tx.initiated_by == request.user
IsOwnTransaction(tx, actor) == tx.initiated_by = actor

ApproveActions == {"approve", "reject", "other"}

\* the instance as changed in memory before tx.save()
Decided(tx, actor, action) ==
  IF action = "approve"
  THEN [tx EXCEPT !.status = "completed", !.approved_by = actor]
  ELSE [tx EXCEPT !.status = "rejected", !.approved_by = actor,
                  !.rejection_reason = "given"]

\* the view up to (not including) tx.save(): role gate, lookup of the
\* pending row, own-transaction check, validation of the action
ApproveTransaction(w, actor, id, action) ==
  /\ Idle(w)
  /\ UnchangedDb
  /\ IF membership[actor].role \notin ManagerRoles
     THEN Finish(w, "approve", 403, "none")
     ELSE IF ~Found(id, membership[actor].company, "pending")
     THEN Finish(w, "approve", 404, "none")
     ELSE IF IsOwnTransaction(txs[id], actor)
     THEN Finish(w, "approve", 400, "own")
     ELSE IF action \notin {"approve", "reject"}
     THEN Finish(w, "approve", 400, "invalid")
     ELSE /\ pc' = [pc EXCEPT ![w] = "approve_save"]
          /\ local' = [local EXCEPT ![w] =
                [NoLocal EXCEPT !.id = id, !.tx = Decided(txs[id], actor, action)]]
          /\ UNCHANGED <<resp, ret>>

\* tx.save(): UPDATE of every column of the row from the in-memory instance
ApproveSave(w) ==
  /\ pc[w] = "approve_save"
  /\ txs' = [txs EXCEPT ![local[w].id] = local[w].tx]
  /\ Finish(w, "approve", 200, "none")
  /\ UNCHANGED <<accounts_vars, expenses, db_engine, details, balances, adj>>

----------------------------------------------------------------------------
(* reverse_transaction *)

\* a reversal that carries over the fee of the original
ReversalKeepingFee(tx, id, actor, reference) ==
  [reference |-> reference,
   company |-> tx.company,
   branch |-> tx.branch,
   customer |-> tx.customer,
   initiated_by |-> actor,
   transaction_type |-> "reversal",
   channel |-> tx.channel,
   status |-> "completed",
   amount |-> tx.amount,
   fee |-> tx.fee,
   net_amount |-> tx.net_amount,
   requires_approval |-> FALSE,
   approved_by |-> "none",
   rejection_reason |-> "none",
   reversed_transaction |-> id]

\* the row passed to Transaction.objects.create for the reversal
Reversal(tx, id, actor, reference) ==
  [reference |-> reference,
   company |-> tx.company,
   branch |-> tx.branch,
   customer |-> tx.customer,
   initiated_by |-> actor,
   transaction_type |-> "reversal",
   channel |-> tx.channel,
   status |-> "completed",
   amount |-> tx.amount,
   fee |-> 0,
   net_amount |-> tx.amount,
   requires_approval |-> FALSE,
   approved_by |-> "none",
   rejection_reason |-> "none",
   reversed_transaction |-> id]

\* the view up to the reversal insert: role gate, lookup of the completed
\* row, validation of the reason
ReverseTransaction(w, actor, id, reason_given) ==
  /\ Idle(w)
  /\ UnchangedDb
  /\ IF membership[actor].role \notin AdminRoles
     THEN Finish(w, "reverse", 403, "none")
     ELSE IF ~Found(id, membership[actor].company, "completed")
     THEN Finish(w, "reverse", 404, "none")
     ELSE IF ~reason_given
     THEN Finish(w, "reverse", 400, "invalid")
     ELSE /\ pc' = [pc EXCEPT ![w] = "reverse_create"]
          /\ local' = [local EXCEPT ![w] =
                [NoLocal EXCEPT !.id = id, !.tx = txs[id],
                                !.actor = actor]]
          /\ UNCHANGED <<resp, ret>>

\* first write: Transaction.objects.create(... reversed_transaction=tx)
ReverseCreate(w, timestamp, rand, notify_ok) ==
  LET reference == generate_reference(timestamp, rand)
      row == Reversal(local[w].tx, local[w].id, local[w].actor, reference)
  IN  /\ pc[w] = "reverse_create"
      /\ Len(txs) < MaxTx
      /\ NotifiesOnCreate(row) \/ notify_ok
      /\ IF ReferenceTaken(reference)
         THEN /\ Finish(w, "reverse", 500, "IntegrityError")
              /\ UNCHANGED txs
         ELSE /\ txs' = Append(txs, row)
              /\ IF notify_ok
                 THEN /\ pc' = [pc EXCEPT ![w] = "reverse_save"]
                      /\ local' = [local EXCEPT ![w].reversal = Len(txs) + 1]
                      /\ UNCHANGED <<resp, ret>>
                 ELSE Finish(w, "reverse", 500, "notification")
      /\ UNCHANGED <<accounts_vars, expenses, db_engine, details, balances, adj>>

\* second write: tx.status = REVERSED; tx.save(update_fields=["status"])
ReverseSave(w) ==
  /\ pc[w] = "reverse_save"
  /\ txs' = [txs EXCEPT ![local[w].id].status = "reversed"]
  /\ Finish(w, "reverse", 201, "none")
  /\ UNCHANGED <<accounts_vars, expenses, db_engine, details, balances, adj>>

----------------------------------------------------------------------------
(* transactions / transaction_detail / pending_approvals (read views) *)

\* a queryset without the company filter
AllRows(company) == 1..Len(txs)

\* Transaction.objects.filter(company=membership.company)
CompanyRows(company) == {i \in 1..Len(txs) : txs[i].company = company}

\* query parameters of the list: status, type, channel, customer, branch,
\* date_from, date_to and search; "" or 0 is a parameter that is not sent.
\* Dates are compared with the millisecond of the insert, the search term
\* with the three-digit suffix of the reference.
TxFilters ==
  [status : {"", "pending"}, type : {"", "deposit"},
   channel : {"", "bank"}, customer : {"", "cust1"}, branch : {"", "b1"},
   date_from : {0, 2}, date_to : {0, 2}, search : {0, 100}]

NoFilter ==
  [status |-> "", type |-> "", channel |-> "", customer |-> "", branch |-> "",
   date_from |-> 0, date_to |-> 0, search |-> 0]

\* the ids answered by the list view
transactions(actor, f) ==
  LET company_qs == CompanyRows(membership[actor].company)
      qs == IF membership[actor].role = "teller"
            THEN {i \in company_qs : txs[i].initiated_by = actor}
            ELSE company_qs
  IN  {i \in qs :
         /\ f.status = "" \/ txs[i].status = f.status
         /\ f.type = "" \/ txs[i].transaction_type = f.type
         /\ f.channel = "" \/ txs[i].channel = f.channel
         /\ f.customer = "" \/ txs[i].customer = f.customer
         /\ f.branch = "" \/ txs[i].branch = f.branch
         /\ f.date_from = 0 \/ txs[i].reference[2] >= f.date_from
         /\ f.date_to = 0 \/ txs[i].reference[2] <= f.date_to
         /\ f.search = 0 \/ txs[i].reference[3] = f.search}

\* the ids answered by the detail view (none with 404 or 403)
transaction_detail(actor, id) ==
  IF id \notin CompanyRows(membership[actor].company) THEN {}
  ELSE IF membership[actor].role = "teller" /\ txs[id].initiated_by # actor THEN {}
  ELSE {id}

\* the ids answered by the pending-approvals view (none with 403)
pending_approvals(actor) ==
  IF membership[actor].role \notin ManagerRoles THEN {}
  ELSE {i \in CompanyRows(membership[actor].company) :
          txs[i].requires_approval /\ txs[i].status = "pending"}

\* a read view answers 200 with the rows selected; nothing is written
Return(w, op, actor, value) ==
  /\ Idle(w)
  /\ ret' = [op |-> op, actor |-> actor, args |-> <<>>, value |-> value]
  /\ Respond(op, 200, "none")
  /\ UNCHANGED <<pc, local>>
  /\ UnchangedDb

GetTransactions(w, actor, f) ==
  Return(w, "transactions", actor, transactions(actor, f))

\* 403 or 404 of a read view: no rows in the body
Refuse(w, op, code) ==
  /\ Idle(w)
  /\ ret' = NoReturn
  /\ Respond(op, code, "none")
  /\ UNCHANGED <<pc, local>>
  /\ UnchangedDb

GetTransactionDetail(w, actor, id) ==
  IF id \notin CompanyRows(membership[actor].company)
  THEN Refuse(w, "transaction_detail", 404)
  ELSE IF membership[actor].role = "teller" /\ txs[id].initiated_by # actor
  THEN Refuse(w, "transaction_detail", 403)
  ELSE Return(w, "transaction_detail", actor, transaction_detail(actor, id))

GetPendingApprovals(w, actor) ==
  IF membership[actor].role \notin ManagerRoles
  THEN Refuse(w, "pending_approvals", 403)
  ELSE Return(w, "pending_approvals", actor, pending_approvals(actor))

----------------------------------------------------------------------------
(* Provider balances *)

Providers == {"mtn", "vodafone"}

\* a table without the unique index on (company, user, provider)
NoBalanceRow(company, user, provider) == NoId

\* the row of ProviderBalance with the given unique key, NoId if there is none
BalanceRow(company, user, provider) ==
  IF \E i \in 1..Len(balances) :
        /\ balances[i].company = company
        /\ balances[i].user = user
        /\ balances[i].provider = provider
  THEN CHOOSE i \in 1..Len(balances) :
        /\ balances[i].company = company
        /\ balances[i].user = user
        /\ balances[i].provider = provider
  ELSE NoId

BalanceFilters == [user : {"", "teller1", "admin2"}, provider : {"", "mtn"}]

\* a balance list that shows every member the balances of all users
provider_balances_all_users(actor, f) ==
  {i \in 1..Len(balances) :
     /\ balances[i].company = membership[actor].company
     /\ f.user = "" \/ balances[i].user = f.user
     /\ f.provider = "" \/ balances[i].provider = f.provider}

\* the ids answered by provider_balances
provider_balances(actor, f) ==
  LET company_qs == {i \in 1..Len(balances) :
                       balances[i].company = membership[actor].company}
      qs == IF membership[actor].role \notin AdminRoles
            THEN {i \in company_qs : balances[i].user = actor}
            ELSE company_qs
  IN  {i \in qs :
         /\ f.user = "" \/ balances[i].user = f.user
         /\ f.provider = "" \/ balances[i].provider = f.provider}

GetProviderBalances(w, actor, f) ==
  Return(w, "provider_balances", actor, provider_balances(actor, f))

\* set_provider_balance: update_or_create by (company, user, provider); it
\* runs in its own atomic block with the row locked, so it is one step
SetProviderBalance(w, actor, user, provider, starting_balance) ==
  LET company == membership[actor].company
      i == BalanceRow(company, user, provider)
      row == [company |-> company, user |-> user, provider |-> provider,
              starting_balance |-> starting_balance,
              balance |-> starting_balance]
      busy == \E v \in Workers : pc[v] = "adjust_save" /\ local[v].bal = i
  IN  /\ Idle(w)
      /\ UNCHANGED <<accounts_vars, expenses, db_engine, txs, details>>
      /\ IF membership[actor].role \notin AdminRoles
         THEN /\ Finish(w, "set_balance", 403, "none")
              /\ UNCHANGED <<balances, adj>>
         ELSE IF i = NoId
         THEN /\ balances' = Append(balances, row)
              /\ adj' = [adj EXCEPT !.rows =
                    Append(@, [expected |-> starting_balance, clean |-> TRUE])]
              /\ Finish(w, "set_balance", 201, "none")
         ELSE /\ balances' = [balances EXCEPT ![i] = row]
              /\ adj' = [adj EXCEPT !.rows[i] =
                    [expected |-> starting_balance, clean |-> ~busy]]
              /\ Finish(w, "set_balance", 200, "none")

\* initialize_all_balances up to the loop: role gate and the check that a
\* user and a non-empty balances object were sent; items are the entries of
\* the balances object in order
InitializeAllBalances(w, actor, user, items) ==
  /\ Idle(w)
  /\ UnchangedDb
  /\ IF membership[actor].role \notin AdminRoles
     THEN Finish(w, "initialize", 403, "none")
     ELSE IF items = <<>>
     THEN Finish(w, "initialize", 400, "invalid")
     ELSE /\ pc' = [pc EXCEPT ![w] = "initialize_next"]
          /\ local' = [local EXCEPT ![w] =
                [NoLocal EXCEPT !.actor = actor, !.user = user, !.items = items]]
          /\ UNCHANGED <<resp, ret>>

\* one turn of the loop: an entry whose provider is not a choice is skipped,
\* any other is written with update_or_create; after the last entry the
\* view answers 200
InitializeNext(w) ==
  LET company == membership[local[w].actor].company
      user == local[w].user
      provider == Head(local[w].items)[1]
      amount == Head(local[w].items)[2]
      i == BalanceRow(company, user, provider)
      row == [company |-> company, user |-> user, provider |-> provider,
              starting_balance |-> amount, balance |-> amount]
      busy == \E v \in Workers : pc[v] = "adjust_save" /\ local[v].bal = i
  IN  /\ pc[w] = "initialize_next"
      /\ UNCHANGED <<accounts_vars, expenses, db_engine, txs, details>>
      /\ IF provider \notin Providers
         THEN UNCHANGED <<balances, adj>>
         ELSE IF i = NoId
         THEN /\ balances' = Append(balances, row)
              /\ adj' = [adj EXCEPT !.rows =
                    Append(@, [expected |-> amount, clean |-> TRUE])]
         ELSE /\ balances' = [balances EXCEPT ![i] = row]
              /\ adj' = [adj EXCEPT !.rows[i] =
                    [expected |-> amount, clean |-> ~busy]]
      /\ IF Len(local[w].items) = 1
         THEN Finish(w, "initialize", 200, "none")
         ELSE /\ local' = [local EXCEPT ![w].items = Tail(@)]
              /\ UNCHANGED <<pc, resp, ret>>

\* a check that only refuses to subtract from an empty balance
InsufficientOnlyWhenEmpty(balance, amount) == balance <= 0

\* balance.balance < amount
InsufficientBalance(balance, amount) == balance < amount

Operations == {"add", "subtract"}

\* adjust_provider_balance up to (not including) balance.save(): the read of
\* the caller's own row and the arithmetic on the in-memory instance
AdjustProviderBalance(w, actor, provider, amount, operation) ==
  LET i == BalanceRow(membership[actor].company, actor, provider)
  IN  /\ Idle(w)
      /\ adj.count < MaxAdjust
      /\ adj' = [adj EXCEPT !.count = @ + 1]
      /\ UNCHANGED <<accounts_vars, expenses, db_engine, txs, details, balances>>
      /\ IF i = NoId
         THEN Finish(w, "adjust", 404, "none")
         ELSE IF operation = "subtract" /\ InsufficientBalance(balances[i].balance, amount)
         THEN Finish(w, "adjust", 400, "insufficient")
         ELSE /\ pc' = [pc EXCEPT ![w] = "adjust_save"]
              /\ local' = [local EXCEPT ![w] =
                    [NoLocal EXCEPT
                       !.bal = i, !.amount = amount, !.operation = operation,
                       !.read = balances[i].balance,
                       !.starting = balances[i].starting_balance,
                       !.new = IF operation = "add"
                               THEN balances[i].balance + amount
                               ELSE balances[i].balance - amount]]
              /\ UNCHANGED <<resp, ret>>

\* balance.save(): UPDATE of every column of the row from the instance
AdjustSave(w) ==
  LET i == local[w].bal
      delta == IF local[w].operation = "add" THEN local[w].amount
               ELSE -local[w].amount
  IN  /\ pc[w] = "adjust_save"
      /\ balances' = [balances EXCEPT
            ![i].balance = local[w].new,
            ![i].starting_balance = local[w].starting]
      /\ adj' = [adj EXCEPT !.rows[i].expected = @ + delta]
      /\ Finish(w, "adjust", 200, "none")
      /\ UNCHANGED <<accounts_vars, expenses, db_engine, txs, details>>

----------------------------------------------------------------------------
(* Expense requests *)

\* expense_requests, POST: ExpenseRequest.objects.create with the model's
\* defaults (status pending, no approver)
CreateExpense(w, actor) ==
  /\ Idle(w)
  /\ Len(expenses) < MaxExpenses
  /\ expenses' = Append(expenses,
        [company |-> membership[actor].company, requested_by |-> actor,
         status |-> "pending", approved_by |-> "none",
         approved_at |-> "null", rejection_reason |-> "none"])
  /\ Finish(w, "expense_create", 201, "none")
  /\ UNCHANGED <<accounts_vars, db_engine, txs, details, balances, adj>>

\* ExpenseRequest.objects.get(id=, company=, status=pending)
ExpenseFound(id, company) ==
  /\ id \in 1..Len(expenses)
  /\ expenses[id].company = company
  /\ expenses[id].status = "pending"

\* the instance as changed in memory before expense.save()
ExpenseDecided(expense, actor, action) ==
  IF action = "approve"
  THEN [expense EXCEPT !.status = "approved", !.approved_by = actor,
                       !.approved_at = "set"]
  ELSE [expense EXCEPT !.status = "rejected", !.approved_by = actor,
                       !.approved_at = "set", !.rejection_reason = "given"]

\* approve_expense up to (not including) expense.save(): role gate, lookup
\* of the pending row, the action
ApproveExpense(w, actor, id, action) ==
  /\ Idle(w)
  /\ UnchangedDb
  /\ IF membership[actor].role \notin ManagerRoles
     THEN Finish(w, "expense_approve", 403, "none")
     ELSE IF ~ExpenseFound(id, membership[actor].company)
     THEN Finish(w, "expense_approve", 404, "none")
     ELSE IF action \notin {"approve", "reject"}
     THEN Finish(w, "expense_approve", 400, "invalid")
     ELSE /\ pc' = [pc EXCEPT ![w] = "expense_save"]
          /\ local' = [local EXCEPT ![w] =
                [NoLocal EXCEPT !.id = id, !.actor = actor,
                   !.expense = ExpenseDecided(expenses[id], actor, action)]]
          /\ UNCHANGED <<resp, ret>>

\* expense.save(): UPDATE of every column of the row from the instance
ExpenseSave(w) ==
  /\ pc[w] = "expense_save"
  /\ expenses' = [expenses EXCEPT ![local[w].id] = local[w].expense]
  /\ Finish(w, "expense_approve", 200, "none")
  /\ UNCHANGED <<accounts_vars, db_engine, txs, details, balances, adj>>

----------------------------------------------------------------------------
(* Login: lockout middleware, login view, two-factor verification and the  *)
(* resolution of the token of an API request                               *)

MAX_ATTEMPTS == 5
WINDOW_SECONDS == 300
LOCKOUT_SECONDS == 900

\* users whose TwoFactorAuth row has is_enabled set
TwoFactorEnabled == {"owner1"}

\* Token.key of the token of a user
KeyOf(user) == <<"key", user>>

\* _resolve_user: the user of the Token row with this key, if there is one
resolve_user(key) ==
  IF \E t \in tokens : t.key = key
  THEN (CHOOSE t \in tokens : t.key = key).user
  ELSE "none"

\* AccountLockoutMiddleware.__call__ before get_response, for a POST to the
\* login endpoint: under _lock, 429 while the lockout of the IP lasts
LockoutCheck(w, ip, user, password) ==
  /\ Idle(w)
  /\ Len(logins) + Cardinality({v \in Workers : pc[v] = "login_view"}) < MaxLogins
  /\ UNCHANGED <<tokens, auth, attempts, lockouts, now, logins>>
  /\ UNCHANGED <<expenses, db_engine, txs, details, balances, adj>>
  /\ IF now < lockouts[ip]
     THEN Finish(w, "login", 429, "locked")
     ELSE /\ pc' = [pc EXCEPT ![w] = "login_view"]
          /\ local' = [local EXCEPT ![w] =
                [NoLocal EXCEPT !.ip = ip, !.user = user, !.password = password]]
          /\ UNCHANGED <<resp, ret>>

\* the login view for an active user with one active membership: 401 for a
\* wrong password; otherwise Token.objects.get_or_create and, with 2FA
\* enabled, the key of that token as temp_token
Login(w) ==
  LET user == local[w].user
      failed == local[w].password # "right"
      body == IF failed THEN "invalid"
              ELSE IF user \in TwoFactorEnabled THEN "requires_2fa"
              ELSE "token"
  IN  /\ pc[w] = "login_view"
      /\ logins' = Append(logins,
            [ip |-> local[w].ip, at |-> now, failed |-> failed])
      /\ tokens' = IF failed THEN tokens
                   ELSE tokens \cup {[key |-> KeyOf(user), user |-> user]}
      /\ auth' = IF body = "requires_2fa"
                 THEN [auth EXCEPT !.temp = @ \cup {KeyOf(user)}]
                 ELSE auth
      /\ pc' = [pc EXCEPT ![w] = "lockout_track"]
      /\ local' = [local EXCEPT ![w].status_code = IF failed THEN 401 ELSE 200,
                                ![w].body = body]
      /\ UNCHANGED <<attempts, lockouts, now, resp, ret>>
      /\ UNCHANGED <<expenses, db_engine, txs, details, balances, adj>>

\* the attempts of the window that is open at the given time
InWindow(times, t) ==
  SelectSeq(times, LAMBDA a : t - a < WINDOW_SECONDS)

\* AccountLockoutMiddleware.__call__ after get_response: under _lock, a 401
\* is recorded and the fifth one in the window locks the IP; a 200 clears
\* the attempts and the lockout
LockoutTrack(w) ==
  LET ip == local[w].ip
      recorded == Append(InWindow(attempts[ip], now), now)
  IN  /\ pc[w] = "lockout_track"
      /\ IF local[w].status_code = 401
         THEN IF Len(recorded) >= MAX_ATTEMPTS
              THEN /\ lockouts' = [lockouts EXCEPT ![ip] = now + LOCKOUT_SECONDS]
                   /\ attempts' = [attempts EXCEPT ![ip] = <<>>]
              ELSE /\ attempts' = [attempts EXCEPT ![ip] = recorded]
                   /\ UNCHANGED lockouts
         ELSE /\ attempts' = [attempts EXCEPT ![ip] = <<>>]
              /\ lockouts' = [lockouts EXCEPT ![ip] = 0]
      /\ Finish(w, "login", local[w].status_code, local[w].body)
      /\ UNCHANGED <<tokens, auth, now, logins>>
      /\ UNCHANGED <<expenses, db_engine, txs, details, balances, adj>>

\* twofa_verify_login: the user is looked up by temp_token in the Token
\* table; a valid TOTP or backup code answers the key of the same token
TwofaVerifyLogin(w, temp_token, code_valid) ==
  LET user == resolve_user(temp_token)
  IN  /\ Idle(w)
      /\ UNCHANGED <<tokens, attempts, lockouts, now, logins>>
      /\ UNCHANGED <<expenses, db_engine, txs, details, balances, adj>>
      /\ IF user = "none"
         THEN /\ Finish(w, "2fa_verify", 401, "invalid_token")
              /\ UNCHANGED auth
         ELSE IF user \notin TwoFactorEnabled
         THEN /\ Finish(w, "2fa_verify", 400, "not_configured")
              /\ UNCHANGED auth
         ELSE IF ~code_valid
         THEN /\ Finish(w, "2fa_verify", 401, "invalid_code")
              /\ UNCHANGED auth
         ELSE /\ auth' = [auth EXCEPT !.verified = @ \cup {user}]
              /\ Finish(w, "2fa_verify", 200, "token")

\* an API request with the header Authorization: Token <key>, as resolved
\* by _resolve_user of TenantMiddleware: request.user and the status
ApiRequest(w, key) ==
  /\ Idle(w)
  /\ auth' = [auth EXCEPT !.user = resolve_user(key)]
  /\ IF resolve_user(key) = "none"
     THEN Finish(w, "api", 401, "none")
     ELSE Finish(w, "api", 200, "none")
  /\ UNCHANGED <<tokens, attempts, lockouts, now, logins>>
  /\ UNCHANGED <<expenses, db_engine, txs, details, balances, adj>>

\* time.time() advances
Tick(seconds) ==
  /\ now + seconds <= MaxTime
  /\ now' = now + seconds
  /\ UNCHANGED <<tokens, auth, attempts, lockouts, logins>>
  /\ UNCHANGED <<pc, local, resp, ret>>
  /\ UNCHANGED <<expenses, db_engine, txs, details, balances, adj>>

----------------------------------------------------------------------------
(* Specifications *)

Engines == {"sqlite", "postgresql"}

\* the empty database of a deployment on the given engine
InitOn(engines) ==
  /\ db_engine \in engines
  /\ txs = <<>>
  /\ details = {}
  /\ balances = <<>>
  /\ pc = [w \in Workers |-> "idle"]
  /\ local = [w \in Workers |-> NoLocal]
  /\ resp = [op |-> "none", code |-> 0, error |-> "none"]
  /\ ret = NoReturn
  /\ adj = [count |-> 0, rows |-> <<>>]
  /\ expenses = <<>>
  /\ tokens = {}
  /\ auth = [temp |-> {}, verified |-> {}, user |-> "none"]
  /\ attempts = [ip \in IPs |-> <<>>]
  /\ lockouts = [ip \in IPs |-> 0]
  /\ now = 0
  /\ logins = <<>>

\* production settings: postgresql
Init == InitOn({"postgresql"})

Denominations == {-1, 0}

Created == {i \in 1..Len(txs) : txs[i].transaction_type # "reversal"}

\* Approval workflow and reversal.  Bank deposits below and above the
\* approval threshold are created by two members of company c1 and decided
\* by any member of any company; every insert happens at a later
\* millisecond than the rows already stored.
Next ==
  \E w \in Workers :
    \/ \E actor \in {"owner1", "teller1"}, amount \in {500, 5000},
          customer \in {"cust1"}, notify_ok \in BOOLEAN :
         /\ Cardinality(Created) < MaxCreated
         /\ CreateTransaction(w, actor, "bank", customer, "deposit", amount, 0,
                              Len(txs) + 1, 100, notify_ok)
    \/ CreateDetail(w)
    \/ \E actor \in Users, id \in 1..MaxTx, action \in ApproveActions :
         ApproveTransaction(w, actor, id, action)
    \/ ApproveSave(w)
    \/ \E actor \in Users, id \in 1..MaxTx, reason_given \in BOOLEAN :
         ReverseTransaction(w, actor, id, reason_given)
    \/ \E notify_ok \in BOOLEAN :
         ReverseCreate(w, Len(txs) + 1, 100, notify_ok)
    \/ ReverseSave(w)

Spec == Init /\ [][Next]_vars

\* The three create views on either database engine, for a company with
\* settings (c1) and one without (c2), every channel and type the
\* serializers accept, and amounts around the rounding and approval
\* boundaries.
CreateAmounts == {-100, 0, 25, 50, 500, 999, 1000, 5000}

NextCreate ==
  \E w \in Workers :
    \/ \E actor \in {"owner1", "admin2"} : CreateMomoRefused(w, actor)
    \/ \E actor \in {"owner1", "admin2"}, ct \in ChannelTypes,
          amount \in CreateAmounts, d_200 \in Denominations,
          notify_ok \in BOOLEAN :
         /\ Cardinality(Created) < MaxCreated
         /\ CreateTransaction(w, actor, ct[1], "none", ct[2], amount, d_200,
                              Len(txs) + 1, 100, notify_ok)
    \/ CreateDetail(w)

SpecCreate == InitOn(Engines) /\ [][NextCreate]_vars

\* Creation, approval and reversal when the clock and the random suffix
\* repeat: every reference is generated in the same millisecond.  Requests
\* are made by an owner and a manager of the company for stored transactions.
NextRefs ==
  \E w \in Workers :
    \/ \E amount \in {500, 1000}, rand \in Rands :
         CreateTransaction(w, "owner1", "bank", "none", "deposit", amount, 0,
                           1, rand, TRUE)
    \/ CreateDetail(w)
    \/ \E actor \in {"owner1", "manager1"}, id \in 1..Len(txs),
          action \in {"approve", "reject"} :
         ApproveTransaction(w, actor, id, action)
    \/ ApproveSave(w)
    \/ \E id \in 1..Len(txs) : ReverseTransaction(w, "owner1", id, TRUE)
    \/ \E rand \in Rands : ReverseCreate(w, 1, rand, TRUE)
    \/ ReverseSave(w)

SpecRefs == Init /\ [][NextRefs]_vars

\* The balance tracker: the owner sets balances, owner and teller adjust
\* their own.
NextBalance ==
  \E w \in Workers :
    \/ \E actor \in {"owner1", "teller1"}, user \in {"owner1", "teller1"},
          starting_balance \in {10000} :
         SetProviderBalance(w, actor, user, "mtn", starting_balance)
    \/ \E actor \in {"owner1", "teller1"}, amount \in {-5000, 5000, 15000},
          operation \in Operations :
         AdjustProviderBalance(w, actor, "mtn", amount, operation)
    \/ AdjustSave(w)

SpecBalance == Init /\ [][NextBalance]_vars

\* The fee policy applied to every type of transaction and to amounts from
\* 0 to 500.00, for a company with settings and one without, next to the
\* creation of a deposit.
FeeTypes ==
  {"deposit", "withdrawal", "transfer", "fee", "commission", "reversal"}

FeeAmounts == {0, 1, 25, 50, 100, 500, 999, 1000, 5000, 50000}

\* a call of _calculate_fee: the result is all that it produces
ComputeFee(company, transaction_type, amount) ==
  /\ ret' = [op |-> "calculate_fee", actor |-> company,
             args |-> <<transaction_type, amount>>,
             value |-> {calculate_fee(company, transaction_type, amount)}]
  /\ UNCHANGED <<pc, local, resp>>
  /\ UnchangedDb

NextFee ==
  \/ \E company \in Companies, transaction_type \in FeeTypes,
        amount \in FeeAmounts :
       ComputeFee(company, transaction_type, amount)
  \/ \E w \in Workers :
       /\ Cardinality(Created) < MaxCreated
       /\ CreateTransaction(w, "owner1", "bank", "none", "deposit", 500, 0,
                            Len(txs) + 1, 100, TRUE)
  \/ \E w \in Workers : CreateDetail(w)

SpecFee == InitOn(Engines) /\ [][NextFee]_vars

\* Initialisation of balances, one at a time and in bulk, by the owner and
\* by a teller of c1 for the teller, next to the teller's adjustments.
BulkRequests ==
  { <<>>,
    << <<"mtn", 10000>>, <<"vodafone", 20000>> >>,
    << <<"bogus", 5000>>, <<"mtn", 20000>> >> }

NextInit ==
  \E w \in Workers :
    \/ \E actor \in {"owner1", "teller1"}, starting_balance \in {10000, 20000} :
         SetProviderBalance(w, actor, "teller1", "mtn", starting_balance)
    \/ \E actor \in {"owner1", "teller1"}, items \in BulkRequests :
         InitializeAllBalances(w, actor, "teller1", items)
    \/ InitializeNext(w)
    \/ \E operation \in Operations :
         AdjustProviderBalance(w, "teller1", "mtn", 5000, operation)
    \/ AdjustSave(w)

SpecInit == Init /\ [][NextInit]_vars

\* The read views next to creation and balance setting in two companies:
\* a bank deposit at the approval threshold by a teller of c1 and smaller
\* ones by the owner of c1 and by the admin of c2, a balance of the teller of c1 and one
\* of the admin of c2, read by members of every role of c1 and by the admin
\* of c2.
RequestFilters ==
  { NoFilter,
    [NoFilter EXCEPT !.status = "pending"],
    [NoFilter EXCEPT !.customer = "cust1", !.branch = "b1"],
    [NoFilter EXCEPT !.type = "deposit", !.channel = "bank", !.date_from = 2,
                     !.search = 100] }

NextRead ==
  \E w \in Workers :
    \/ \E p \in {<<"teller1", 1000>>, <<"owner1", 500>>, <<"admin2", 500>>} :
         /\ Len(txs) < MaxListed
         /\ CreateTransaction(w, p[1], "bank", "cust1", "deposit", p[2], 0,
                              Len(txs) + 1, 100, TRUE)
    \/ CreateDetail(w)
    \/ \E p \in {<<"owner1", "teller1">>, <<"admin2", "admin2">>} :
         SetProviderBalance(w, p[1], p[2], "mtn", 10000)
    \/ \E actor \in {"teller1", "agent1", "admin2"}, f \in RequestFilters :
         GetTransactions(w, actor, f)
    \/ \E actor \in {"teller1", "admin2"}, id \in 1..MaxListed :
         GetTransactionDetail(w, actor, id)
    \/ \E actor \in {"manager1", "agent1", "admin2"} :
         GetPendingApprovals(w, actor)
    \/ \E actor \in {"teller1", "owner1", "admin2"}, f \in BalanceFilters :
         GetProviderBalances(w, actor, f)

SpecRead == Init /\ [][NextRead]_vars

\* The balance list next to balance setting: the owner of c1 sets balances
\* of the teller and of the manager for both providers, the admin of c2
\* sets an own one, and members of every role list balances with and
\* without the user and provider query parameters.
ListFilters == [user : {"", "teller1", "manager1"}, provider : {"", "mtn"}]

NextList ==
  \E w \in Workers :
    \/ \E user \in {"teller1", "manager1"}, provider \in Providers :
         SetProviderBalance(w, "owner1", user, provider, 10000)
    \/ SetProviderBalance(w, "admin2", "admin2", "mtn", 10000)
    \/ \E actor \in {"teller1", "manager1", "owner1", "admin2"},
          f \in ListFilters :
         GetProviderBalances(w, actor, f)

SpecList == Init /\ [][NextList]_vars

\* Expense requests of company c1: the manager and the teller submit,
\* members of every role and an admin of another company decide.
NextExpense ==
  \E w \in Workers :
    \/ \E actor \in {"manager1", "teller1"} : CreateExpense(w, actor)
    \/ \E actor \in {"owner1", "manager1", "teller1", "admin2"},
          id \in 1..MaxExpenses, action \in ApproveActions :
         ApproveExpense(w, actor, id, action)
    \/ ExpenseSave(w)

SpecExpense == Init /\ [][NextExpense]_vars

\* Adjustments of the teller's own balances next to balance setting: the
\* owner of c1 sets and sets again the starting balance of the teller and
\* sets one of the manager, the admin of c2 sets an own one, and the teller
\* adjusts the balance of a provider with and without a record.
NextFrame ==
  \E w \in Workers :
    \/ \E starting_balance \in {10000, 20000} :
         SetProviderBalance(w, "owner1", "teller1", "mtn", starting_balance)
    \/ SetProviderBalance(w, "owner1", "manager1", "mtn", 10000)
    \/ SetProviderBalance(w, "admin2", "admin2", "mtn", 10000)
    \/ \E provider \in Providers :
         AdjustProviderBalance(w, "teller1", provider, 5000, "add")
    \/ AdjustSave(w)

SpecFrame == Init /\ [][NextFrame]_vars

\* Creation and reversal with the customer field of the request: an owner
\* of c1 and an admin of c2 create bank deposits without a customer and
\* for each of the customers registered, reverse them and list them.
NextCustomer ==
  \E w \in Workers :
    \/ \E actor \in {"owner1", "admin2"},
          customer \in {"none"} \cup DOMAIN customer_company :
         CreateTransaction(w, actor, "bank", customer, "deposit", 500, 0,
                           Len(txs) + 1, 100, TRUE)
    \/ CreateDetail(w)
    \/ \E actor \in {"owner1", "admin2"}, id \in 1..MaxTx :
         ReverseTransaction(w, actor, id, TRUE)
    \/ ReverseCreate(w, Len(txs) + 1, 100, TRUE)
    \/ ReverseSave(w)
    \/ \E actor \in {"owner1", "admin2"} : GetTransactions(w, actor, NoFilter)

SpecCustomer == Init /\ [][NextCustomer]_vars

\* Login with and without two-factor authentication: the owner (2FA
\* enabled) and the teller log in from one address with a right or a wrong
\* password, temp tokens are verified with a valid or an invalid code, and
\* API requests carry the key of a user's token or another key.
Keys == {KeyOf("owner1"), KeyOf("teller1"), KeyOf("nobody")}

NextLogin ==
  \E w \in Workers :
    \/ \E user \in {"owner1", "teller1"}, password \in {"right", "wrong"} :
         /\ Len(logins) < MaxSessions
         /\ LockoutCheck(w, "ip1", user, password)
    \/ Login(w)
    \/ LockoutTrack(w)
    \/ \E temp_token \in Keys, code_valid \in BOOLEAN :
         TwofaVerifyLogin(w, temp_token, code_valid)
    \/ \E key \in Keys : ApiRequest(w, key)

SpecLogin == Init /\ [][NextLogin]_vars

\* The lockout of one address: logins of the teller with a wrong and with
\* the right password from one address, by concurrent requests, while the
\* clock advances by a window at a time.
NextLockout ==
  \E w \in Workers :
    \/ \E password \in {"right", "wrong"} :
         LockoutCheck(w, "ip1", "teller1", password)
    \/ Login(w)
    \/ LockoutTrack(w)
    \/ Tick(WINDOW_SECONDS)

SpecLockout == Init /\ [][NextLockout]_vars

----------------------------------------------------------------------------
(* Properties *)

AllIdle == \A w \in Workers : pc[w] = "idle"

\* C1: once every request has finished, each balance equals the value it
\* was set to plus the accepted adds minus the accepted subtracts (no
\* accepted adjustment is lost), for rows that were not re-initialised
\* while an adjustment was under way.
C1_NoLostAdjustment ==
  AllIdle =>
    \A i \in 1..Len(balances) :
      adj.rows[i].clean => balances[i].balance = adj.rows[i].expected

HasDetail(i) == \E d \in details : d.transaction = i

\* C2: no state has a Transaction made by a create view without its
\* channel-detail record.
C2_DetailWithTransaction == \A i \in Created : HasDetail(i)

\* C2, at rest: the same once every request has finished
C2_DetailWhenIdle == AllIdle => C2_DetailWithTransaction

Reversals == {i \in 1..Len(txs) : txs[i].transaction_type = "reversal"}

ReversalsOf(i) == {j \in 1..Len(txs) : txs[j].reversed_transaction = i}

\* C3: no state has a reversal record whose original transaction is still
\* completed.
C3_ReversalWithStatus ==
  \A j \in Reversals : txs[txs[j].reversed_transaction].status # "completed"

\* C4: a reversed transaction has exactly one reversal pointing to it, and
\* no transaction has more than one.
C4_ExactlyOneReversal ==
  \A i \in 1..Len(txs) :
    /\ Cardinality(ReversalsOf(i)) <= 1
    /\ txs[i].status = "reversed" => Cardinality(ReversalsOf(i)) = 1

LegalTransitions ==
  { <<"pending", "completed">>, <<"pending", "rejected">>,
    <<"completed", "reversed">> }

\* C5: every change of a stored transaction's status is pending to
\* completed, pending to rejected or completed to reversed (so rejected and
\* reversed are never left).
C5_LegalTransitions ==
  [][\A i \in 1..Len(txs) :
       \/ txs'[i].status = txs[i].status
       \/ <<txs[i].status, txs'[i].status>> \in LegalTransitions]_vars

ApproverIsNotInitiator ==
  /\ \A i \in 1..Len(txs) :
       txs[i].approved_by # "none" => txs[i].approved_by # txs[i].initiated_by
  /\ \A w \in Workers :
       pc[w] = "approve_save" =>
         local[w].tx.approved_by # local[w].tx.initiated_by

\* C6: a stored approver is never the initiator, no approval by the
\* initiator ever reaches the write, and the refusal of the initiator's
\* request leaves every transaction as it was.
C6_NoSelfApproval ==
  /\ []ApproverIsNotInitiator
  /\ [][(resp'.error = "own" /\ pc' = pc) => txs' = txs]_vars

\* C6 witness: the initiator was refused and the transaction is still
\* pending without approver
C6_Witness ==
  /\ resp = [op |-> "approve", code |-> 400, error |-> "own"]
  /\ \E i \in 1..Len(txs) :
       /\ txs[i].status = "pending"
       /\ txs[i].approved_by = "none"
       /\ membership[txs[i].initiated_by].role \in ManagerRoles

SubtractInFlightIsCovered ==
  \A w \in Workers :
    (pc[w] = "adjust_save" /\ local[w].operation = "subtract") =>
      /\ local[w].amount <= local[w].read
      /\ local[w].new = local[w].read - local[w].amount
      /\ local[w].new >= 0

\* C7: a subtract of more than the balance read is never accepted; its
\* rejection leaves the stored balances unchanged; an accepted subtract
\* stores the balance read minus the amount, which is not below 0.
C7_SubtractChecked ==
  /\ []SubtractInFlightIsCovered
  /\ [][(resp'.error = "insufficient" /\ pc' = pc) => balances' = balances]_vars
  /\ [][\A w \in Workers :
          (pc[w] = "adjust_save" /\ pc'[w] = "idle"
             /\ local[w].operation = "subtract") =>
            /\ balances'[local[w].bal].balance = local[w].read - local[w].amount
            /\ balances'[local[w].bal].balance >= 0]_vars

\* C7 witness: a subtract was rejected for insufficient balance while the
\* balance is 100.00
C7_Witness ==
  /\ resp = [op |-> "adjust", code |-> 400, error |-> "insufficient"]
  /\ \E i \in 1..Len(balances) : balances[i].balance = 10000

\* C8: every persisted transaction of a positive amount has
\* net_amount = amount - fee and fee >= 0, at the two decimals stored.
C8_NetAmount ==
  \A i \in 1..Len(txs) :
    txs[i].amount > 0 =>
      /\ txs[i].net_amount = txs[i].amount - txs[i].fee
      /\ txs[i].fee >= 0

\* C8 on one engine at a time
C8_NetAmountSqlite == db_engine = "sqlite" => C8_NetAmount
C8_NetAmountPostgresql == db_engine = "postgresql" => C8_NetAmount

UniqueReferences ==
  \A i, j \in 1..Len(txs) : txs[i].reference = txs[j].reference => i = j

\* C10: no two stored transactions share a reference, and no step changes
\* the reference of a stored transaction.
C10_ReferenceUniqueAndFixed ==
  /\ []UniqueReferences
  /\ [][\A i \in 1..Len(txs) : txs'[i].reference = txs[i].reference]_vars

\* C10 witness: a reversal generated the reference of a stored transaction
\* and was refused, after an approval went through
C10_Witness ==
  /\ resp = [op |-> "reverse", code |-> 500, error |-> "IntegrityError"]
  /\ \E i \in 1..Len(txs) : txs[i].approved_by # "none"

\* C11: a reverse request by an owner or admin with a reason, for a
\* completed transaction of their company, is admitted; the record it
\* inserts has type reversal, status completed, the original's amount as
\* amount and net_amount, fee 0, the original's company, channel, customer
\* and branch, and reversed_transaction pointing to the original; its last
\* step stores status reversed on the original and answers 201.
C11_ReversalRecord ==
  /\ [][\A w \in Workers, actor \in Users, id \in 1..Len(txs) :
          ( /\ pc[w] = "idle"
            /\ membership[actor].role \in {"owner", "admin"}
            /\ txs[id].company = membership[actor].company
            /\ txs[id].status = "completed"
            /\ ReverseTransaction(w, actor, id, TRUE) )
          => pc'[w] = "reverse_create"]_vars
  /\ [][\A w \in Workers :
          ( /\ pc[w] = "reverse_create" /\ pc'[w] # "reverse_create"
            /\ Len(txs') = Len(txs) + 1 ) =>
            LET id == local[w].id
                r == txs'[Len(txs')]
            IN  /\ r.transaction_type = "reversal"
                /\ r.status = "completed"
                /\ r.amount = txs[id].amount
                /\ r.fee = 0
                /\ r.net_amount = txs[id].amount
                /\ r.company = txs[id].company
                /\ r.channel = txs[id].channel
                /\ r.customer = txs[id].customer
                /\ r.branch = txs[id].branch
                /\ r.reversed_transaction = id]_vars
  /\ [][\A w \in Workers :
          (pc[w] = "reverse_save" /\ pc'[w] = "idle") =>
            /\ txs'[local[w].id].status = "reversed"
            /\ txs'[local[w].reversal].reversed_transaction = local[w].id
            /\ resp' = [op |-> "reverse", code |-> 201, error |-> "none"]]_vars

\* C11 witness: a reversal of a deposit that had a fee, a customer and a
\* branch was answered 201 and the deposit is reversed
C11_Witness ==
  /\ resp = [op |-> "reverse", code |-> 201, error |-> "none"]
  /\ \E j \in Reversals :
       LET o == txs[txs[j].reversed_transaction]
       IN  /\ o.status = "reversed"
           /\ o.fee > 0
           /\ o.customer = "cust1"
           /\ o.branch = "b1"
           /\ txs[j].fee = 0

\* C12: an approve or reject request for a stored transaction that is not
\* pending, and a reverse request for one that is not completed, end at
\* once with 404 (403 when the role gate refuses first), insert nothing and
\* leave every stored transaction and detail as it was.
C12_WrongStatusRefused ==
  /\ [][\A w \in Workers, actor \in Users, id \in 1..Len(txs) :
          ( /\ pc[w] = "idle"
            /\ txs[id].status # "pending"
            /\ \E action \in ApproveActions :
                 ApproveTransaction(w, actor, id, action) )
          => /\ pc'[w] = "idle"
             /\ resp'.op = "approve"
             /\ resp'.code = IF membership[actor].role \in ManagerRoles
                              THEN 404 ELSE 403
             /\ txs' = txs /\ details' = details]_vars
  /\ [][\A w \in Workers, actor \in Users, id \in 1..Len(txs) :
          ( /\ pc[w] = "idle"
            /\ txs[id].status # "completed"
            /\ \E reason_given \in BOOLEAN :
                 ReverseTransaction(w, actor, id, reason_given) )
          => /\ pc'[w] = "idle"
             /\ resp'.op = "reverse"
             /\ resp'.code = IF membership[actor].role \in AdminRoles
                              THEN 404 ELSE 403
             /\ txs' = txs /\ details' = details]_vars

\* C12 witness: with every request finished, the last answer is the 404 of
\* an approve request by a manager or owner of the company for a stored
\* transaction, and no stored transaction is pending (one is reversed)
C12_Witness ==
  /\ AllIdle
  /\ resp = [op |-> "approve", code |-> 404, error |-> "none"]
  /\ \A i \in 1..Len(txs) : txs[i].status # "pending"
  /\ \E i \in 1..Len(txs) : txs[i].status = "reversed"

RoleOf(actor) == membership[actor].role

\* C13: only an owner, admin or manager gets past the gate of approve and
\* only an owner or admin past the gate of reverse: no write of either view
\* is ever pending for another role, every change of a stored status to
\* completed or rejected carries such an approver, and the request of any
\* other role ends at once with 403 and changes and creates nothing.
C13_RoleGates ==
  /\ [](\A w \in Workers :
          /\ pc[w] = "approve_save" =>
                RoleOf(local[w].tx.approved_by) \in {"owner", "admin", "manager"}
          /\ pc[w] \in {"reverse_create", "reverse_save"} =>
                RoleOf(local[w].actor) \in {"owner", "admin"})
  /\ [][\A i \in 1..Len(txs) :
          (txs'[i].status # txs[i].status /\ txs'[i].status # "reversed") =>
            RoleOf(txs'[i].approved_by) \in {"owner", "admin", "manager"}]_vars
  /\ [][\A w \in Workers, actor \in {"teller1", "agent1"}, id \in 1..MaxTx :
          ( /\ pc[w] = "idle"
            /\ pc'[w] = "approve_save" \/ resp'.op = "approve"
            /\ \E action \in ApproveActions :
                 ApproveTransaction(w, actor, id, action) )
          => /\ resp' = [op |-> "approve", code |-> 403, error |-> "none"]
             /\ pc'[w] = "idle"
             /\ txs' = txs /\ details' = details]_vars
  /\ [][\A w \in Workers, actor \in {"manager1", "teller1", "agent1"},
          id \in 1..MaxTx :
          ( /\ pc[w] = "idle"
            /\ pc'[w] = "reverse_create" \/ resp'.op = "reverse"
            /\ \E reason_given \in BOOLEAN :
                 ReverseTransaction(w, actor, id, reason_given) )
          => /\ resp' = [op |-> "reverse", code |-> 403, error |-> "none"]
             /\ pc'[w] = "idle"
             /\ txs' = txs /\ details' = details]_vars

\* C13 witness: a request was answered 403 by the role gate of reverse
\* while a completed transaction of the company is stored and nothing has
\* been reversed
C13_Witness ==
  /\ AllIdle
  /\ resp = [op |-> "reverse", code |-> 403, error |-> "none"]
  /\ \E i \in 1..Len(txs) : txs[i].status = "completed"
  /\ Reversals = {}

CompanyOf(actor) == membership[actor].company

\* what a member is shown of each view, with the content of the rows
TxView(actor, f) == {<<i, txs[i]>> : i \in transactions(actor, f)}
DetailView(actor, id) == {<<i, txs[i]>> : i \in transaction_detail(actor, id)}
PendingView(actor) == {<<i, txs[i]>> : i \in pending_approvals(actor)}
BalanceView(actor, f) == {<<i, balances[i]>> : i \in provider_balances(actor, f)}

\* the stored records of one company
TxOf(company) ==
  {<<i, txs[i]>> : i \in {j \in 1..Len(txs) : txs[j].company = company}}
BalancesOf(company) ==
  {<<i, balances[i]>> :
     i \in {j \in 1..Len(balances) : balances[j].company = company}}

OnlyOwnCompany ==
  /\ \A actor \in Users :
       /\ \A f \in TxFilters : \A i \in transactions(actor, f) :
             txs[i].company = CompanyOf(actor)
       /\ \A id \in 1..MaxListed : \A i \in transaction_detail(actor, id) :
             txs[i].company = CompanyOf(actor)
       /\ \A i \in pending_approvals(actor) :
             txs[i].company = CompanyOf(actor)
       /\ \A f \in BalanceFilters : \A i \in provider_balances(actor, f) :
             balances[i].company = CompanyOf(actor)
  /\ ret.op \in {"transactions", "transaction_detail", "pending_approvals"} =>
       \A i \in ret.value : txs[i].company = CompanyOf(ret.actor)
  /\ ret.op = "provider_balances" =>
       \A i \in ret.value : balances[i].company = CompanyOf(ret.actor)

\* C14: the list, detail and pending-approvals views and the balance list
\* answer a member only records of the member's company, whatever query
\* parameters are sent; a step that leaves the records of that company as
\* they are (so one that creates or changes records of another company)
\* leaves what the member is answered as it is.
C14_TenantIsolation ==
  /\ []OnlyOwnCompany
  /\ [][\A actor \in Users :
          ( /\ txs' # txs \/ balances' # balances
            /\ TxOf(CompanyOf(actor))' = TxOf(CompanyOf(actor))
            /\ BalancesOf(CompanyOf(actor))' = BalancesOf(CompanyOf(actor)) )
          => /\ \A f \in RequestFilters : TxView(actor, f)' = TxView(actor, f)
             /\ \A id \in 1..MaxListed :
                  DetailView(actor, id)' = DetailView(actor, id)
             /\ PendingView(actor)' = PendingView(actor)
             /\ \A f \in BalanceFilters :
                  BalanceView(actor, f)' = BalanceView(actor, f)]_vars

\* C14 witness: the admin of c2 listed transactions and was answered the
\* one of c2 while a transaction and a balance of c1 are stored
C14_Witness ==
  /\ ret.op = "transactions" /\ ret.actor = "admin2"
  /\ Cardinality(ret.value) = 1
  /\ \E i \in 1..Len(txs) : txs[i].company = "c1"
  /\ \E i \in 1..Len(balances) : balances[i].company = "c1"

\* C15: the list answers a member of the lowest role (teller, or agent
\* after the consolidation of roles) only transactions this member
\* initiated, whatever query parameters are sent, and answers an owner,
\* admin or manager who sends no parameters every transaction of the
\* company.
C15_RoleScopedList ==
  \A actor \in Users :
    IF RoleOf(actor) \in {"teller", "agent"}
    THEN \A f \in TxFilters : \A i \in transactions(actor, f) :
           txs[i].initiated_by = actor
    ELSE transactions(actor, NoFilter) =
           {i \in 1..Len(txs) : txs[i].company = CompanyOf(actor)}

\* C15 for the roles of accounts.models alone (no agent)
C15_TellerScopedList ==
  \A actor \in Users :
    RoleOf(actor) = "teller" =>
      \A f \in TxFilters : \A i \in transactions(actor, f) :
        txs[i].initiated_by = actor

\* C16: no request is answered with the failure of the notifications made
\* after its transaction was saved, and such a failure keeps no write from
\* happening: once every request has finished, every created transaction
\* has its detail.
C16_EmissionFailureSwallowed ==
  /\ resp.error # "notification"
  /\ AllIdle => \A i \in Created : HasDetail(i)

\* C17: every stored transaction has amount > 0 (a create with
\* amount <= 0 stores nothing).
C17_PositiveAmounts == \A i \in 1..Len(txs) : txs[i].amount > 0

PlanOf(i) == subscription_plan[txs[i].company]

\* C18: no transaction is stored for a channel that the plan of its company
\* disables: none of channel mobile_money without has_mobile_money, none of
\* channel bank without has_bank_deposits.
C18_PlanChannels ==
  \A i \in Created :
    /\ txs[i].channel = "mobile_money" => PlanOf(i).has_mobile_money
    /\ txs[i].channel = "bank" => PlanOf(i).has_bank_deposits

\* C18 for mobile money alone
C18_MobileMoneyPlan ==
  \A i \in Created :
    txs[i].channel = "mobile_money" => PlanOf(i).has_mobile_money

\* the fee in 1/Scale minor units that the fee policy returned last
FeeReturned == CHOOSE fee \in ret.value : TRUE

\* C19: the fee computed is the deposit percentage of the amount for a
\* deposit, the withdrawal percentage of the amount for a withdrawal, the
\* flat transfer fee for a transfer whatever the amount, and 0 for another
\* type or for a company without settings (1 percent of 500.00 is 5.00);
\* computing it changes nothing that is stored, and the fee of given
\* arguments is the same in every state.
C19_FeePolicy ==
  /\ [](ret.op = "calculate_fee" =>
          LET company == ret.actor
              transaction_type == ret.args[1]
              amount == ret.args[2]
          IN  /\ company = "c2" => FeeReturned = 0
              /\ (company = "c1" /\ transaction_type = "deposit") =>
                    /\ FeeReturned = 100 * amount
                    /\ amount = 50000 => FeeReturned = 500 * Scale
              /\ (company = "c1" /\ transaction_type = "withdrawal") =>
                    FeeReturned = 200 * amount
              /\ (company = "c1" /\ transaction_type = "transfer") =>
                    FeeReturned = 200 * Scale
              /\ transaction_type \in {"fee", "commission", "reversal"} =>
                    FeeReturned = 0)
  /\ [][ret' # ret =>
          /\ txs' = txs /\ details' = details /\ balances' = balances
          /\ pc' = pc /\ resp' = resp]_vars
  /\ [][\A company \in Companies, transaction_type \in FeeTypes,
          amount \in FeeAmounts :
          calculate_fee(company, transaction_type, amount)' =
            calculate_fee(company, transaction_type, amount)]_vars

\* C19 witness: the fee of a deposit of 500.00 at 1 percent was computed as
\* 5.00 while a transaction is stored
C19_Witness ==
  /\ ret.op = "calculate_fee" /\ ret.actor = "c1"
  /\ ret.args = <<"deposit", 50000>>
  /\ ret.value = {500 * Scale}
  /\ Len(txs) = 1

\* the ids of the balance records of one (company, user, provider)
RowsOf(company, user, provider) ==
  {i \in 1..Len(balances) :
     /\ balances[i].company = company
     /\ balances[i].user = user
     /\ balances[i].provider = provider}

AtMostOnePerTriple ==
  \A i, j \in 1..Len(balances) :
    ( /\ balances[i].company = balances[j].company
      /\ balances[i].user = balances[j].user
      /\ balances[i].provider = balances[j].provider ) => i = j

\* C20: setting a balance as owner or admin, one at a time or as an entry
\* of a bulk request, leaves exactly one record for the (company, user,
\* provider) with starting_balance and balance both the amount sent,
\* whether or not a record was there; the request of any other role is
\* answered 403 and changes no balance; no state has two records for one
\* (company, user, provider).
C20_InitializeBalance ==
  /\ []AtMostOnePerTriple
  /\ [][\A w \in Workers, actor \in {"owner1", "teller1"},
          starting_balance \in {10000, 20000} :
          ( /\ pc[w] = "idle" /\ pc'[w] = "idle" /\ resp'.op = "set_balance"
            /\ SetProviderBalance(w, actor, "teller1", "mtn", starting_balance) )
          => IF RoleOf(actor) \in {"owner", "admin"}
             THEN /\ resp'.code = IF RowsOf("c1", "teller1", "mtn") = {}
                                  THEN 201 ELSE 200
                  /\ Cardinality(RowsOf("c1", "teller1", "mtn")') = 1
                  /\ \A i \in RowsOf("c1", "teller1", "mtn")' :
                       /\ balances'[i].starting_balance = starting_balance
                       /\ balances'[i].balance = starting_balance
             ELSE resp'.code = 403 /\ balances' = balances]_vars
  /\ [][\A w \in Workers :
          ( /\ pc[w] = "initialize_next" /\ local'[w] # local[w]
            /\ Head(local[w].items)[1] \in {"mtn", "vodafone"} )
          => LET company == CompanyOf(local[w].actor)
                 provider == Head(local[w].items)[1]
                 amount == Head(local[w].items)[2]
                 rows == {i \in 1..Len(balances') :
                            /\ balances'[i].company = company
                            /\ balances'[i].user = local[w].user
                            /\ balances'[i].provider = provider}
             IN  /\ RoleOf(local[w].actor) \in {"owner", "admin"}
                 /\ Cardinality(rows) = 1
                 /\ \A i \in rows :
                      /\ balances'[i].starting_balance = amount
                      /\ balances'[i].balance = amount]_vars
  /\ [][\A w \in Workers, items \in BulkRequests :
          ( /\ pc[w] = "idle"
            /\ pc'[w] = "initialize_next" \/ resp'.op = "initialize"
            /\ InitializeAllBalances(w, "teller1", "teller1", items) )
          => /\ resp' = [op |-> "initialize", code |-> 403, error |-> "none"]
             /\ pc'[w] = "idle"
             /\ balances' = balances]_vars

\* C20 witness: a balance that existed and had been adjusted was set again
\* (200) and holds the amount sent as balance and starting_balance
C20_Witness ==
  /\ AllIdle
  /\ resp = [op |-> "set_balance", code |-> 200, error |-> "none"]
  /\ adj.count > 0
  /\ \E i \in RowsOf("c1", "teller1", "mtn") :
       /\ balances[i].balance = 20000
       /\ balances[i].starting_balance = 20000
       /\ adj.rows[i].clean

\* the balance records stored for one user of a company
OwnBalances(company, user) ==
  {i \in 1..Len(balances) :
     balances[i].company = company /\ balances[i].user = user}

\* the rows a pair of query parameters selects
Narrowed(rows, f) ==
  {i \in rows :
     /\ f.user = "" \/ balances[i].user = f.user
     /\ f.provider = "" \/ balances[i].provider = f.provider}

\* C21: the balance list answers a member whose role is below admin only
\* this member's own balance records of the company, also when the user
\* parameter names another user (then it answers none); it answers an
\* owner or admin the balances of all users of the company, narrowed only
\* by the user and provider parameters.
C21_BalanceListScope ==
  [][\A actor \in {"teller1", "manager1", "owner1", "admin2"} :
       \A f \in ListFilters, w \in Workers :
           ( /\ resp'.op = "provider_balances"
             /\ ret'.actor = actor
             /\ GetProviderBalances(w, actor, f) ) =>
             /\ resp'.code = 200
             /\ IF membership[actor].role \in {"owner", "admin"}
                THEN ret'.value =
                       Narrowed({i \in 1..Len(balances) :
                                   balances[i].company = CompanyOf(actor)}, f)
                ELSE /\ ret'.value \subseteq OwnBalances(CompanyOf(actor), actor)
                     /\ ret'.value =
                          Narrowed(OwnBalances(CompanyOf(actor), actor), f)
                     /\ (f.user \notin {"", actor}) => ret'.value = {}]_vars

\* C21 witness: the teller, who has a balance for each provider while the
\* manager has balances too, has just listed balances and was answered
\* none: the user parameter named the manager
C21_Witness ==
  /\ resp = [op |-> "provider_balances", code |-> 200, error |-> "none"]
  /\ ret.op = "provider_balances" /\ ret.actor = "teller1"
  /\ ret.value = {}
  /\ Cardinality(OwnBalances("c1", "teller1")) = 2
  /\ OwnBalances("c1", "manager1") # {}

\* C22: a create request whose generated reference is the reference of a
\* stored transaction still stores its transaction (the reference is
\* generated again): no create request ends with the IntegrityError of the
\* unique index on reference.
C22_CollisionRetried ==
  [][\A w \in Workers :
       ( /\ Idle(w)
         /\ pc'[w] = "idle" /\ local'[w] = local[w]
         /\ resp'.op = "create"
         /\ \E rand \in Rands : ReferenceTaken(generate_reference(1, rand)) )
       => ~( /\ resp'.code = 500
             /\ resp'.error = "IntegrityError"
             /\ txs' = txs )]_vars

\* C23: an approval attempt by the initiator of the transaction is answered
\* with the status of a refusal for too low a role (403), which is not the
\* status answered for an invalid action or for an insufficient balance
\* (400).
C23_SelfApprovalForbidden ==
  (resp.op = "approve" /\ resp.error = "own") => resp.code = 403

\* C24: no expense request is approved or rejected by its own requester:
\* a stored expense request that has an approver has an approver other
\* than requested_by.
C24_NoSelfDecidedExpense ==
  \A i \in 1..Len(expenses) :
    expenses[i].approved_by # "none" =>
      expenses[i].approved_by # expenses[i].requested_by

\* C25: an expense request changes only from pending to approved or to
\* rejected, with a manager, admin or owner of its company as approver and
\* approved_at set; once approved or rejected it is never written again;
\* a request refused for its action leaves the expense requests as they
\* are.
C25_ExpenseDecidedOnce ==
  [][/\ \A i \in 1..Len(expenses) :
          /\ expenses[i].status \in {"approved", "rejected"} =>
                expenses'[i] = expenses[i]
          /\ expenses'[i] # expenses[i] =>
                /\ expenses[i].status = "pending"
                /\ expenses'[i].status \in {"approved", "rejected"}
                /\ expenses'[i].approved_at = "set"
                /\ membership[expenses'[i].approved_by].company =
                     expenses[i].company
                /\ membership[expenses'[i].approved_by].role \in
                     {"owner", "admin", "manager"}
     /\ (resp'.op = "expense_approve" /\ resp'.code = 400) =>
          expenses' = expenses]_vars

\* C26: an accepted adjustment with operation add stores the balance it
\* read plus the amount, and this is not less than the balance it read,
\* for every amount the request validation accepts.
C26_AddNeverLowers ==
  [][\A w \in Workers :
       (pc[w] = "adjust_save" /\ pc'[w] = "idle"
          /\ local[w].operation = "add") =>
         /\ balances'[local[w].bal].balance = local[w].read + local[w].amount
         /\ balances'[local[w].bal].balance >= local[w].read]_vars

\* C27: an adjustment reads the balance record of (the actor's company,
\* the actor, the provider given) and its save writes that record only:
\* every other balance record, and the starting_balance of the record
\* itself, stay as stored; with no record for the triple the request is
\* answered 404 and no record is created.
C27_AdjustFrame ==
  [][\A w \in Workers :
       /\ \A provider \in Providers :
            ( /\ Idle(w)
              /\ pc'[w] = "adjust_save" \/ resp'.op = "adjust"
              /\ AdjustProviderBalance(w, "teller1", provider, 5000, "add") )
            => /\ balances' = balances
               /\ IF \E i \in 1..Len(balances) :
                       /\ balances[i].company = "c1"
                       /\ balances[i].user = "teller1"
                       /\ balances[i].provider = provider
                  THEN /\ pc'[w] = "adjust_save"
                       /\ balances[local'[w].bal].company = "c1"
                       /\ balances[local'[w].bal].user = "teller1"
                       /\ balances[local'[w].bal].provider = provider
                  ELSE resp' = [op |-> "adjust", code |-> 404, error |-> "none"]
       /\ (pc[w] = "adjust_save" /\ pc'[w] = "idle") =>
            /\ Len(balances') = Len(balances)
            /\ \A i \in 1..Len(balances) :
                 i # local[w].bal => balances'[i] = balances[i]
            /\ balances'[local[w].bal].starting_balance =
                 balances[local[w].bal].starting_balance]_vars

\* C28: the customer of every stored transaction, when set, is a customer
\* of the company of the transaction, whatever customer the create request
\* names; so the transactions a list answers to a member carry only
\* customers of the member's company.
C28_CustomerOfCompany ==
  /\ \A i \in 1..Len(txs) :
       txs[i].customer # "none" =>
         customer_company[txs[i].customer] = txs[i].company
  /\ ret.op = "transactions" =>
       \A i \in ret.value :
         txs[i].customer # "none" =>
           customer_company[txs[i].customer] = CompanyOf(ret.actor)

\* C29: for a user with two-factor authentication enabled, no value that
\* login answered is the key of a token that authenticates API requests
\* as this user before this user has passed the verification of a TOTP or
\* backup code; so no API request is served as such a user before.
C29_NoTokenBeforeSecondFactor ==
  /\ \A key \in auth.temp :
       resolve_user(key) \in TwoFactorEnabled =>
         resolve_user(key) \in auth.verified
  /\ auth.user \in TwoFactorEnabled => auth.user \in auth.verified

\* the failed logins from an address that the login view processed in the
\* window starting at a time
FailedInWindow(ip, t) ==
  {k \in 1..Len(logins) :
     /\ logins[k].ip = ip /\ logins[k].failed
     /\ t <= logins[k].at /\ logins[k].at < t + WINDOW_SECONDS}

\* C30: the login view processes at most 5 failed logins from one address
\* in any window of 300 seconds, and it processes no login from an address
\* while the lockout of the address lasts.
C30_LockoutBound ==
  /\ [](\A ip \in IPs : \A k \in 1..Len(logins) :
          Cardinality(FailedInWindow(ip, logins[k].at)) <= 5)
  /\ [][\A w \in Workers :
          (pc[w] = "login_view" /\ pc'[w] = "lockout_track") =>
            ~(now < lockouts[local[w].ip])]_vars

====
